---------------------------- MODULE Spec2Model ----------------------------
(***************************************************************************)
(* Connection establishment of the Teleport API client                     *)
(* (api/client/client.go): New / connectWithAuth / syncConnect, the        *)
(* lifecycle flag (setOpen, setClosed, isClosed), Close and grpcDialer.    *)
(*                                                                         *)
(* Client values are numbered: 0 is the Client allocated by New; a > 0 is  *)
(* the copy `clt` that `go syncConnect(ctx, *c, ...)` passes to attempt a. *)
(* Connections are numbered <<a, k>>: k = 1 is the connection attempt a    *)
(* dials first, k = 2 the one it dials after a tunnel advertisement.       *)
(***************************************************************************)
EXTENDS Integers, Sequences, FiniteSets, TLC

(* ------------------------------ bounds -------------------------------- *)
\* longest Config.Credentials list drawn as input
MaxCreds == 2
\* length of Config.Addrs
NumAddrs == 1
\* inputs are drawn among those that enumerate at most this many attempts
MaxAttempts == 2
\* number of concurrent callers of Close()
NumClosers == 2
\* largest Config.DialTimeout drawn as input, in seconds
MaxDialTimeout == 3
\* the clock stops at this many seconds
MaxTime == 3
\* longest Config.Addrs list drawn as input of the credentials loop alone
MaxEnumAddrs == 3

(* --------------------------- program constants ------------------------ *)
unsetFlag == 0
openFlag == 1
closedFlag == 2

NoConn == <<0, 0>>
NoConfig == 0
NoDialer == "nil"
NoErr == [isNil |-> TRUE, causes |-> <<>>, deadline |-> FALSE]

\* constants.APIDomain, the address dialed through a custom dialer
APIDomain == <<"teleport.cluster.local", 0>>
\* the address the second dial of syncConnect targets
FixedTunnelAddr == <<"localhost:3024", 0>>
\* a non-empty PingResponse.PublicTunnelAddr
AdvertisedAddr == <<"advertised-tunnel", 0>>
EmptyAddr == <<"", 0>>
Addr(i) == <<"addr", i>>

(* ------------------------------ inputs -------------------------------- *)
\* One Credentials value: whether TLSConfig() succeeds, what SSHConfig()
\* returns (an error, nil, or a config) and whether Dialer() succeeds.
CredKinds ==
    { [tls |-> "err", ssh |-> "nil", dialer |-> FALSE],
      [tls |-> "ok",  ssh |-> "err", dialer |-> FALSE],
      [tls |-> "ok",  ssh |-> "nil", dialer |-> FALSE],
      [tls |-> "ok",  ssh |-> "cfg", dialer |-> FALSE],
      [tls |-> "ok",  ssh |-> "nil", dialer |-> TRUE],
      [tls |-> "ok",  ssh |-> "cfg", dialer |-> TRUE] }

Resolves(k) == k.tls = "ok" /\ k.ssh # "err"

\* Number of `go syncConnect` statements one loop iteration executes for a
\* credential of kind k (lines 140-179).
AttemptsOf(k, cfgD) ==
    IF ~Resolves(k) THEN 0
    ELSE IF k.dialer \/ cfgD THEN 1
    ELSE IF k.ssh = "cfg" THEN 2 * NumAddrs
    ELSE NumAddrs

RECURSIVE TotalAttempts(_, _)
TotalAttempts(cs, cfgD) ==
    IF cs = <<>> THEN 0
    ELSE AttemptsOf(Head(cs), cfgD) + TotalAttempts(Tail(cs), cfgD)

CredLists == UNION { [1..n -> CredKinds] : n \in 1..MaxCreds }

VARIABLES
    creds,          \* Config.Credentials
    cfgDialer,      \* Config.Dialer # nil
    clients,        \* client id -> Client struct
    cVar,           \* the receiver variable `c` of connectWithAuth, captured by syncConnect
    pcMain,         \* position of connectWithAuth
    credIdx,        \* index of the credentials loop
    addrIdx,        \* index of the address loops
    errs,           \* the slice `errs`
    retErr,         \* what connectWithAuth returned
    attempts,       \* the goroutines running syncConnect
    conns,          \* connection id -> grpc.ClientConn
    dialDone,       \* dialContext.Done() is closed
    chanClosed,     \* clientChan is closed
    wins,           \* attempts whose c.setOpen() returned true
    panicked,       \* a goroutine panicked
    closers,        \* callers of Close() on the Client New returned
    lastDial,       \* the last call of the installed connection's grpcDialer
    ctxDone,        \* the ctx passed to New is cancelled
    addrs,          \* Config.Addrs
    files,          \* profile directory: profile name -> content of <name>.yaml
    current,        \* profile directory: the current profile name
    lastSave,       \* the last call of Profile.SaveToDir and what it found
    now,            \* the time since connectWithAuth was called, in seconds
    dialTimeout,    \* Config.DialTimeout after CheckAndSetDefaults, in seconds
    upsertRun       \* one call of RoleReconciler.Upsert and the role it is about

\* what no step of connectWithAuth, syncConnect or Close changes: the
\* profile directory, the clock, Config.DialTimeout and the operator's Upsert
outside == <<files, current, lastSave, now, dialTimeout, upsertRun>>

vars == <<creds, cfgDialer, clients, cVar, pcMain, credIdx, addrIdx, errs, retErr,
          attempts, conns, dialDone, chanClosed, wins, panicked, closers, lastDial, ctxDone, addrs, outside>>

(* ------------------------------- time --------------------------------- *)
\* time.Second
Second == 1
\* stands for defaults.DefaultDialTimeout, a positive duration
DefaultDialTimeout == 3

\* CheckAndSetDefaults (lines 299-313), the DialTimeout field
CheckAndSetDefaults(t) == IF t = 0 THEN DefaultDialTimeout ELSE t

\* line 93: context.WithTimeout(context.Background(), time.Second)
DialDeadline(cfgTimeout) == Second

\* the clock is not observed
NoClock ==
    /\ now = 0
    /\ dialTimeout = CheckAndSetDefaults(0)

(* -------------------------- RoleReconciler ---------------------------- *)
\* Upsert has not been called
NoUpsert ==
    upsertRun = [pc |-> "idle", obj |-> "none", role |-> "absent", before |-> "absent",
                 err |-> "nil", log |-> <<>>, ret |-> "none",
                 conditions |-> <<>>, stored |-> <<>>]

(* ------------------------- profile directory -------------------------- *)
\* a file, a load result and the last save are <<>> (no file, NotFound, no
\* call yet) or a one-element sequence
NoFile == <<>>
NotFound == <<>>
NoSave == <<>>
NoName == ""
ProfileNames == {"proxy", "other"}

\* an empty profile directory
NoProfiles ==
    /\ files = [n \in ProfileNames |-> NoFile]
    /\ current = NoName
    /\ lastSave = NoSave

(* --------------------------- lifecycle flag --------------------------- *)
isClosed(flag) == flag = closedFlag

\* atomic.CompareAndSwapInt32(&c.atomicFlag, old, new)
CompareAndSwap(flag, old, new) ==
    [won |-> flag = old, flag |-> IF flag = old THEN new ELSE flag]

\* a store in place of the compare-and-swap
setOpenStore(flag) == [won |-> TRUE, flag |-> openFlag]

setOpen(flag) == CompareAndSwap(flag, unsetFlag, openFlag)

setClosedStore(flag) == [won |-> TRUE, flag |-> closedFlag]

\* a swap that wins from any state but closed
setClosedFromAny(flag) == [won |-> flag # closedFlag, flag |-> closedFlag]

setClosed(flag) == CompareAndSwap(flag, openFlag, closedFlag)

(* ------------------------------- Init --------------------------------- *)
\* &Client{c: cfg}
NewClient ==
    [atomicFlag |-> unsetFlag, tlsConfig |-> NoConfig, sshConfig |-> NoConfig,
     dialer |-> NoDialer, conn |-> NoConn, grpc |-> NoConn]

Init ==
    /\ cfgDialer \in BOOLEAN
    /\ creds \in { cs \in CredLists : TotalAttempts(cs, cfgDialer) <= MaxAttempts }
    /\ clients = [i \in {0} |-> NewClient]
    /\ cVar = 0
    /\ pcMain = "resolve"
    /\ credIdx = 1
    /\ addrIdx = 1
    /\ errs = <<>>
    /\ retErr = NoErr
    /\ attempts = <<>>
    /\ conns = <<>>
    /\ dialDone = FALSE
    /\ chanClosed = FALSE
    /\ wins = {}
    /\ panicked = FALSE
    /\ closers = [k \in 1..NumClosers |-> [pc |-> "idle", won |-> FALSE, released |-> NoConn, ret |-> "none"]]
    /\ lastDial = [called |-> FALSE, flag |-> unsetFlag, underlying |-> FALSE]
    /\ ctxDone = FALSE
    /\ NoProfiles
    /\ NoUpsert
    /\ NoClock
    /\ addrs = [n \in 1..NumAddrs |-> Addr(n)]

(* ------------------------- connectWithAuth ---------------------------- *)
Running == ~panicked

CredErr(i, kind) == [src |-> "cred", id |-> i, kind |-> kind]
AttemptErr(a, kind) == [src |-> "attempt", id |-> a, kind |-> kind]

\* The Client after lines 142 and 148 for credential i of kind k:
\* c.tlsConfig, err = creds.TLSConfig(); c.sshConfig, err = creds.SSHConfig()
WithConfigs(cl, k, i) ==
    IF k.tls = "err" THEN [cl EXCEPT !.tlsConfig = NoConfig]
    ELSE [cl EXCEPT !.tlsConfig = i,
                    !.sshConfig = IF k.ssh = "cfg" THEN i ELSE NoConfig]

\* go syncConnect(ctx, *c, dialer, addr): a new goroutine with a copy of *c
NewAttempt(dialer, addr) ==
    [pc |-> "dial", cred |-> credIdx, dialer |-> dialer, addr |-> addr,
     conn |-> NoConn, tconn |-> NoConn, service |-> NoConn,
     tunnelAddr |-> EmptyAddr, redirected |-> FALSE, tgt |-> 0, err |-> "none",
     early |-> FALSE]

GoSyncConnect(cl, dialer, addr) ==
    LET a == Len(attempts) + 1 IN
    /\ attempts' = Append(attempts, NewAttempt(dialer, addr))
    /\ clients' = [i \in 0..a |-> IF i = a THEN cl
                                  ELSE IF i = cVar THEN cl ELSE clients[i]]

\* `continue` / end of the loop body: the next credential, or the select loop
NextCred ==
    /\ credIdx' = credIdx + 1
    /\ addrIdx' = 1
    /\ pcMain' = IF credIdx + 1 > Len(creds) THEN "select" ELSE "resolve"

MainUnchanged ==
    UNCHANGED <<creds, cfgDialer, cVar, errs, retErr, conns, dialDone, chanClosed,
                wins, panicked, closers, lastDial, ctxDone, addrs, outside>>

\* lines 142-152: TLSConfig() or SSHConfig() fails; the loop body sends the
\* error on the unbuffered errChan, which only the select loop below, in
\* this same goroutine, receives from.
ResolveFail ==
    /\ Running /\ pcMain = "resolve"
    /\ ~Resolves(creds[credIdx])
    /\ clients' = [clients EXCEPT ![cVar] = WithConfigs(@, creds[credIdx], credIdx)]
    /\ pcMain' = "cred_err"
    /\ UNCHANGED <<credIdx, addrIdx, attempts>>
    /\ MainUnchanged

\* lines 154-158
SpawnCredsDialer ==
    /\ Running /\ pcMain = "resolve"
    /\ Resolves(creds[credIdx]) /\ creds[credIdx].dialer
    /\ GoSyncConnect(WithConfigs(clients[cVar], creds[credIdx], credIdx), "creds", APIDomain)
    /\ NextCred
    /\ MainUnchanged

\* the configured dialer is tried before the credential's own
SpawnConfigDialerFirst ==
    /\ Running /\ pcMain = "resolve"
    /\ Resolves(creds[credIdx]) /\ cfgDialer
    /\ GoSyncConnect(WithConfigs(clients[cVar], creds[credIdx], credIdx), "config", APIDomain)
    /\ NextCred
    /\ MainUnchanged

\* lines 160-164
SpawnConfigDialer ==
    /\ Running /\ pcMain = "resolve"
    /\ Resolves(creds[credIdx]) /\ ~creds[credIdx].dialer /\ cfgDialer
    /\ GoSyncConnect(WithConfigs(clients[cVar], creds[credIdx], credIdx), "config", APIDomain)
    /\ NextCred
    /\ MainUnchanged

\* lines 142-166 falling through to the address loops
BeginAddrs ==
    /\ Running /\ pcMain = "resolve"
    /\ Resolves(creds[credIdx]) /\ ~creds[credIdx].dialer /\ ~cfgDialer
    /\ addrs # <<>>
    /\ clients' = [clients EXCEPT ![cVar] = WithConfigs(@, creds[credIdx], credIdx)]
    /\ pcMain' = "direct"
    /\ addrIdx' = 1
    /\ UNCHANGED <<credIdx, attempts>>
    /\ MainUnchanged

\* the tunnel loop is entered without the test of line 172
SpawnDirectNoSSHCheck ==
    /\ Running /\ pcMain = "direct"
    /\ GoSyncConnect(clients[cVar], "direct", addrs[addrIdx])
    /\ IF addrIdx < Len(addrs)
         THEN addrIdx' = addrIdx + 1 /\ UNCHANGED <<pcMain, credIdx>>
         ELSE pcMain' = "tunnel" /\ addrIdx' = 1 /\ UNCHANGED credIdx
    /\ MainUnchanged

\* lines 167-170, one iteration
SpawnDirect ==
    /\ Running /\ pcMain = "direct"
    /\ GoSyncConnect(clients[cVar], "direct", addrs[addrIdx])
    /\ IF addrIdx < Len(addrs)
         THEN addrIdx' = addrIdx + 1 /\ UNCHANGED <<pcMain, credIdx>>
         ELSE IF clients[cVar].sshConfig # NoConfig
                 THEN pcMain' = "tunnel" /\ addrIdx' = 1 /\ UNCHANGED credIdx
                 ELSE NextCred
    /\ MainUnchanged

\* lines 173-178, one iteration
SpawnTunnel ==
    /\ Running /\ pcMain = "tunnel"
    /\ GoSyncConnect(clients[cVar], "tunnel", addrs[addrIdx])
    /\ IF addrIdx < Len(addrs)
         THEN addrIdx' = addrIdx + 1 /\ UNCHANGED <<pcMain, credIdx>>
         ELSE NextCred
    /\ MainUnchanged

\* the timer of context.WithTimeout(context.Background(), time.Second), line 93
DeadlineFire ==
    /\ Running /\ ~dialDone
    /\ pcMain \notin {"ret_ok", "ret_err"}
    /\ dialDone' = TRUE
    /\ UNCHANGED <<creds, cfgDialer, clients, cVar, pcMain, credIdx, addrIdx, errs, retErr,
                   attempts, conns, chanClosed, wins, panicked, closers, lastDial, ctxDone, addrs, outside>>

\* trace.NewAggregate(errs...): nil for an empty list
NewAggregate(es) == es

\* lines 189-193 without the fallback to dialContext.Err() of lines 190-192
TimeoutErrorNoFallback(es) ==
    [isNil |-> NewAggregate(es) = <<>>, causes |-> NewAggregate(es), deadline |-> FALSE]

\* lines 189-193
TimeoutError(es) ==
    [isNil |-> FALSE, causes |-> NewAggregate(es), deadline |-> NewAggregate(es) = <<>>]

\* line 184-185: case c = <-clientChan, meeting attempt a's send of line 135
RecvClient(a) ==
    /\ Running /\ pcMain = "select"
    /\ attempts[a].pc = "send_client" /\ ~chanClosed
    /\ cVar' = a
    /\ pcMain' = "ret_ok"
    /\ retErr' = NoErr
    /\ attempts' = [attempts EXCEPT ![a].pc = "close_chan"]
    /\ UNCHANGED <<creds, cfgDialer, clients, credIdx, addrIdx, errs, conns, dialDone,
                   chanClosed, wins, panicked, closers, lastDial, ctxDone, addrs, outside>>

\* the coordinator gives up on the first error it receives
RecvErrAbort(a) ==
    /\ Running /\ pcMain = "select"
    /\ attempts[a].pc = "send_err"
    /\ errs' = Append(errs, AttemptErr(a, attempts[a].err))
    /\ retErr' = [isNil |-> FALSE, causes |-> errs', deadline |-> FALSE]
    /\ pcMain' = "ret_err"
    /\ attempts' = [attempts EXCEPT ![a].pc = "done", ![a].early = FALSE]
    /\ UNCHANGED <<creds, cfgDialer, clients, cVar, credIdx, addrIdx, conns,
                   dialDone, chanClosed, wins, panicked, closers, lastDial, ctxDone, addrs, outside>>

\* lines 186-187: case err := <-errChan, meeting attempt a's send
RecvErr(a) ==
    /\ Running /\ pcMain = "select"
    /\ attempts[a].pc = "send_err"
    /\ errs' = Append(errs, AttemptErr(a, attempts[a].err))
    /\ attempts' = [attempts EXCEPT ![a].pc = "done", ![a].early = FALSE]
    /\ UNCHANGED <<creds, cfgDialer, clients, cVar, pcMain, credIdx, addrIdx, retErr, conns,
                   dialDone, chanClosed, wins, panicked, closers, lastDial, ctxDone, addrs, outside>>

\* lines 188-193: case <-dialContext.Done()
Timeout ==
    /\ Running /\ pcMain = "select"
    /\ dialDone
    /\ retErr' = TimeoutError(errs)
    /\ pcMain' = "ret_err"
    /\ UNCHANGED <<creds, cfgDialer, clients, cVar, credIdx, addrIdx, errs, attempts, conns,
                   dialDone, chanClosed, wins, panicked, closers, lastDial, ctxDone, addrs, outside>>

(* ----------------------------- syncConnect ---------------------------- *)
AttemptUnchanged ==
    UNCHANGED <<creds, cfgDialer, cVar, pcMain, credIdx, addrIdx, errs, retErr, dialDone,
                chanClosed, panicked, closers, lastDial, ctxDone, addrs, outside>>

\* The closure grpcDialer returns (lines 263-272), bound to the Client value
\* cl it was called on: "closed" without a dial when cl is closed, else the
\* outcome of dialer.DialContext.
grpcDialer(cl, underlying) ==
    IF isClosed(cl.atomicFlag) THEN "closed" ELSE underlying

\* the Client of New, read through the captured `c`
CltShared(a) == clients[0]

\* the parameter clt of syncConnect in attempt a: the copy *c made at the
\* go statement (lines 156, 162, 169, 176)
Clt(a) == clients[a]

\* getClientConn (lines 236-258) called on the clt of attempt `owner`: the
\* transport credentials are built from its tlsConfig (line 239); ssh is
\* the SSH config a tunnel dialer of line 115 was built from
NewConn(owner, dialer, addr, ssh) ==
    [owner |-> owner, dialer |-> dialer, addr |-> addr, closes |-> 0, closeErr |-> "none",
     tls |-> Clt(owner).tlsConfig, ssh |-> ssh]

\* the attempt goes on to the claim with the connection it has, in place of
\* reporting the error
FailFallback(a, kind) ==
    attempts' = [attempts EXCEPT ![a].pc = "claim", ![a].err = kind]

\* the attempt goes on to its error report, errChan <- trace.Wrap(err);
\* early: the report was reached while dialContext had not expired
Fail(a, kind) ==
    attempts' = [attempts EXCEPT ![a].pc = "send_err", ![a].err = kind,
                                 ![a].early = ~dialDone]

\* line 100: conn, err := clt.getClientConn(ctx, dialer, addr)
Dial(a) ==
    /\ Running /\ attempts[a].pc = "dial"
    /\ \E net \in {"ok", "problem"} :
         IF grpcDialer(Clt(a), net) = "ok"
         THEN /\ conns' = conns @@ (<<a, 1>> :> NewConn(a, attempts[a].dialer, attempts[a].addr, NoConfig))
              /\ attempts' = [attempts EXCEPT ![a].pc = "ping", ![a].conn = <<a, 1>>]
         ELSE /\ Fail(a, "dial")
              /\ UNCHANGED conns
    /\ UNCHANGED <<clients, wins>>
    /\ AttemptUnchanged

\* the test of line 114 without its SSH config half
RedirectsAnyCreds(cl, tunnelAddr) == tunnelAddr # EmptyAddr

\* line 114: resp.PublicTunnelAddr != "" && clt.sshConfig != nil
Redirects(cl, tunnelAddr) == tunnelAddr # EmptyAddr /\ cl.sshConfig # NoConfig

\* the error of the health check is not tested: the attempt goes on to the claim
PingIgnoresError(a) ==
    /\ Running /\ attempts[a].pc = "ping"
    /\ attempts' = [attempts EXCEPT ![a].service = attempts[a].conn,
                                    ![a].pc = "claim", ![a].err = "ping"]
    /\ UNCHANGED <<clients, conns, wins>>
    /\ AttemptUnchanged

\* lines 105-114: service := NewAuthServiceClient(conn); resp, err := service.Ping(...)
\* An RPC on a cancelled ctx returns an error.
Ping(a) ==
    /\ Running /\ attempts[a].pc = "ping"
    /\ \/ /\ ~ctxDone
          /\ \E adv \in {EmptyAddr, AdvertisedAddr} :
            attempts' = [attempts EXCEPT
                ![a].service = attempts[a].conn,
                ![a].tunnelAddr = adv,
                ![a].redirected = Redirects(Clt(a), adv),
                ![a].pc = IF Redirects(Clt(a), adv) THEN "tdial" ELSE "claim"]
       \/ attempts' = [attempts EXCEPT ![a].service = attempts[a].conn,
                                        ![a].pc = "send_err", ![a].err = "ping",
                                        ![a].early = ~dialDone]
    /\ UNCHANGED <<clients, conns, wins>>
    /\ AttemptUnchanged

\* lines 115-121: the `conn, err :=` of line 117 declares a new conn in the
\* scope of the if block (tconn here); the conn of line 100 is not assigned.
TunnelDial(a) ==
    /\ Running /\ attempts[a].pc = "tdial"
    /\ \E net \in {"ok", "problem"} :
         IF grpcDialer(Clt(a), net) = "ok"
         THEN /\ conns' = conns @@ (<<a, 2>> :> NewConn(a, "tunnel", FixedTunnelAddr, Clt(a).sshConfig))
              /\ attempts' = [attempts EXCEPT ![a].pc = "tping", ![a].tconn = <<a, 2>>]
         ELSE /\ Fail(a, "tunnel_dial")
              /\ UNCHANGED conns
    /\ UNCHANGED <<clients, wins>>
    /\ AttemptUnchanged

\* lines 122-127: service = NewAuthServiceClient(conn); resp, err = service.Ping(...)
TunnelPing(a) ==
    /\ Running /\ attempts[a].pc = "tping"
    /\ \/ /\ ~ctxDone
          /\ \E adv \in {EmptyAddr, AdvertisedAddr} :
            attempts' = [attempts EXCEPT ![a].service = attempts[a].tconn,
                                        ![a].tunnelAddr = adv,
                                        ![a].pc = "claim"]
       \/ attempts' = [attempts EXCEPT ![a].service = attempts[a].tconn,
                                        ![a].pc = "send_err", ![a].err = "tunnel_ping",
                                        ![a].early = ~dialDone]
    /\ UNCHANGED <<clients, conns, wins>>
    /\ AttemptUnchanged

\* The values a read of the captured variable `c` by an attempt can yield:
\* the coordinator assigns c at line 184 with no synchronisation with the
\* attempts that have not sent, so such a read yields the old or the new value.
ReadC == {0, cVar}

\* the winner goes straight to its send, lines 132-134 left out
ClaimNoInstall(a) ==
    /\ Running /\ attempts[a].pc = "claim"
    /\ \E t \in ReadC :
         LET r == setOpen(clients[t].atomicFlag) IN
         /\ clients' = [clients EXCEPT ![t].atomicFlag = r.flag]
         /\ IF r.won
            THEN /\ wins' = wins \cup {a}
                 /\ attempts' = [attempts EXCEPT ![a].pc = "send_client", ![a].tgt = t]
            ELSE /\ wins' = wins
                 /\ attempts' = [attempts EXCEPT ![a].pc = "done"]
    /\ UNCHANGED conns
    /\ AttemptUnchanged

\* line 131: if c.setOpen()
Claim(a) ==
    /\ Running /\ attempts[a].pc = "claim"
    /\ \E t \in ReadC :
         LET r == setOpen(clients[t].atomicFlag) IN
         /\ clients' = [clients EXCEPT ![t].atomicFlag = r.flag]
         /\ IF r.won
            THEN /\ wins' = wins \cup {a}
                 /\ attempts' = [attempts EXCEPT ![a].pc = "install", ![a].tgt = t]
            ELSE /\ wins' = wins
                 /\ attempts' = [attempts EXCEPT ![a].pc = "done"]
    /\ UNCHANGED conns
    /\ AttemptUnchanged

\* lines 132-134 without c.conn = conn
InstallWithoutConn(a) ==
    /\ Running /\ attempts[a].pc = "install"
    /\ clients' = [clients EXCEPT ![attempts[a].tgt].dialer = attempts[a].dialer,
                                  ![attempts[a].tgt].grpc = attempts[a].service]
    /\ attempts' = [attempts EXCEPT ![a].pc = "send_client"]
    /\ UNCHANGED <<conns, wins>>
    /\ AttemptUnchanged

\* lines 132-134: c.dialer = dialer; c.conn = conn; c.grpc = service
Install(a) ==
    /\ Running /\ attempts[a].pc = "install"
    /\ clients' = [clients EXCEPT ![attempts[a].tgt].dialer = attempts[a].dialer,
                                  ![attempts[a].tgt].conn = attempts[a].conn,
                                  ![attempts[a].tgt].grpc = attempts[a].service]
    /\ attempts' = [attempts EXCEPT ![a].pc = "send_client"]
    /\ UNCHANGED <<conns, wins>>
    /\ AttemptUnchanged

\* line 135 on a closed clientChan: send on closed channel panics (also when
\* the channel is closed while the send is blocked)
SendOnClosed(a) ==
    /\ Running /\ attempts[a].pc = "send_client"
    /\ chanClosed
    /\ panicked' = TRUE
    /\ UNCHANGED <<creds, cfgDialer, clients, cVar, pcMain, credIdx, addrIdx, errs, retErr,
                   attempts, conns, dialDone, chanClosed, wins, closers, lastDial, ctxDone, addrs, outside>>

\* line 136: close(clientChan)
CloseChan(a) ==
    /\ Running /\ attempts[a].pc = "close_chan"
    /\ IF chanClosed THEN panicked' = TRUE /\ UNCHANGED chanClosed
                     ELSE chanClosed' = TRUE /\ UNCHANGED panicked
    /\ attempts' = [attempts EXCEPT ![a].pc = "done"]
    /\ UNCHANGED <<creds, cfgDialer, clients, cVar, pcMain, credIdx, addrIdx, errs, retErr,
                   conns, dialDone, wins, closers, lastDial, ctxDone, addrs, outside>>

(* -------------------------------- Close ------------------------------- *)
\* New returns the Client (id 0) only when connectWithAuth returned nil
\* (lines 83-87): callers can call Close from then on.
CloserUnchanged ==
    UNCHANGED <<creds, cfgDialer, cVar, pcMain, credIdx, addrIdx, errs, retErr, attempts,
                dialDone, chanClosed, wins, lastDial, ctxDone, addrs, outside>>

\* line 351: return nil, for a call that lost the claim
LoserResultErr == "err"

LoserResult == "nil"

\* the winner's error is swallowed
WinnerResultNil(err) == "nil"

\* lines 347-349: return trace.Wrap(err), nil for a nil err
WinnerResult(err) == err

\* line 346: if c.setClosed(), by caller k, on the Client of New
CloseCall(k) ==
    /\ closers[k].pc = "idle"
    /\ LET r == setClosed(clients[0].atomicFlag) IN
         /\ clients' = [clients EXCEPT ![0].atomicFlag = r.flag]
         /\ closers' = [closers EXCEPT ![k].won = r.won,
                                       ![k].pc = IF r.won THEN "release" ELSE "done",
                                       ![k].ret = IF r.won THEN "none" ELSE LoserResult]
    /\ UNCHANGED <<conns, panicked>>
    /\ CloserUnchanged

\* Close() called on the Client New returned
CloseClaim(k) ==
    /\ Running /\ pcMain = "ret_ok"
    /\ CloseCall(k)

\* line 347: err := c.conn.Close()
CloseRelease(k) ==
    /\ Running /\ closers[k].pc = "release"
    /\ LET cn == clients[0].conn IN
         IF cn = NoConn
         THEN /\ panicked' = TRUE
              /\ UNCHANGED <<conns, closers>>
         ELSE /\ \E e \in {"nil", "err"} :
                   /\ conns' = [conns EXCEPT ![cn].closes = @ + 1, ![cn].closeErr = e]
                   /\ closers' = [closers EXCEPT ![k].pc = "clear", ![k].released = cn,
                                                 ![k].ret = e]
              /\ UNCHANGED panicked
    /\ UNCHANGED clients
    /\ CloserUnchanged

\* lines 348-349: c.conn = nil; return
CloseClear(k) ==
    /\ Running /\ closers[k].pc = "clear"
    /\ clients' = [clients EXCEPT ![0].conn = NoConn]
    /\ closers' = [closers EXCEPT ![k].pc = "done", ![k].ret = WinnerResult(@)]
    /\ UNCHANGED <<conns, panicked>>
    /\ CloserUnchanged

(* ------------------------------ accessors ----------------------------- *)
\* lines 330-332: Config returns c.tlsConfig
Config(cl) == cl.tlsConfig

(* ------------------------ dials of the connection --------------------- *)
\* grpc calls the dial function given to grpc.WithContextDialer (line 238)
\* whenever the ClientConn (re)connects: here the connection installed on
\* the Client New returned, while it has not been released.
Redial ==
    /\ Running /\ pcMain = "ret_ok"
    /\ \E cn \in DOMAIN conns :
         /\ conns[cn].closes = 0
         /\ clients[0].conn = cn
         /\ lastDial' = [called |-> TRUE, flag |-> clients[0].atomicFlag,
                         underlying |-> grpcDialer(clients[conns[cn].owner], "ok") # "closed"]
    /\ UNCHANGED <<creds, cfgDialer, clients, cVar, pcMain, credIdx, addrIdx, errs, retErr,
                   attempts, conns, dialDone, chanClosed, wins, panicked, closers, ctxDone, addrs, outside>>

(* ------------------------------ the system ---------------------------- *)
Coordinator ==
    \/ ResolveFail \/ SpawnCredsDialer \/ SpawnConfigDialer \/ BeginAddrs
    \/ SpawnDirect \/ SpawnTunnel \/ Timeout
    \/ \E a \in DOMAIN attempts : RecvClient(a) \/ RecvErr(a)

\* the steps of attempt a that involve no network and no channel partner
AttemptLocal(a) ==
    /\ a \in DOMAIN attempts
    /\ (Claim(a) \/ Install(a) \/ SendOnClosed(a) \/ CloseChan(a))

Next ==
    \/ ResolveFail
    \/ SpawnCredsDialer
    \/ SpawnConfigDialer
    \/ BeginAddrs
    \/ SpawnDirect
    \/ SpawnTunnel
    \/ DeadlineFire
    \/ Timeout
    \/ \E a \in DOMAIN attempts : RecvClient(a)
    \/ \E a \in DOMAIN attempts : RecvErr(a)
    \/ \E a \in DOMAIN attempts : Dial(a)
    \/ \E a \in DOMAIN attempts : Ping(a)
    \/ \E a \in DOMAIN attempts : TunnelDial(a)
    \/ \E a \in DOMAIN attempts : TunnelPing(a)
    \/ \E a \in DOMAIN attempts : Claim(a)
    \/ \E a \in DOMAIN attempts : Install(a)
    \/ \E a \in DOMAIN attempts : SendOnClosed(a)
    \/ \E a \in DOMAIN attempts : CloseChan(a)
    \/ \E k \in DOMAIN closers : CloseClaim(k)
    \/ \E k \in DOMAIN closers : CloseRelease(k)
    \/ \E k \in DOMAIN closers : CloseClear(k)
    \/ Redial

Spec == Init /\ [][Next]_vars

\* The Go scheduler runs every runnable goroutine and the runtime timer
\* fires; a dial or a health check may never return.
FairSpec ==
    /\ Spec
    /\ WF_vars(Coordinator)
    /\ WF_vars(DeadlineFire)
    /\ \A a \in 1..MaxAttempts : WF_vars(AttemptLocal(a))

(* ------------------------------ properties ---------------------------- *)
Returned == pcMain \in {"ret_ok", "ret_err"}

OpenConns == { cn \in DOMAIN conns : conns[cn].closes = 0 }

\* C1: during one connectWithAuth at most one attempt gets a successful
\* setOpen, also among the attempts that reach line 131 after the
\* coordinator has received the winner and returned.
C1_AtMostOneOpenClaim == Cardinality(wins) <= 1

\* C2: an attempt that passed its health check, lost the Open claim and has
\* finished has left none of the connections it opened open.
C2_LosersReleased ==
    \A a \in DOMAIN attempts :
        (attempts[a].pc = "done" /\ attempts[a].err = "none" /\ a \notin wins)
            => \A cn \in OpenConns : conns[cn].owner # a

\* C3: the lifecycle flag of every Client value only ever steps from unset to
\* open and from open to closed.
C3_FlagMonotonic ==
    [][\A i \in DOMAIN clients :
          clients'[i].atomicFlag # clients[i].atomicFlag
              => <<clients[i].atomicFlag, clients'[i].atomicFlag>>
                     \in {<<unsetFlag, openFlag>>, <<openFlag, closedFlag>>}]_vars

\* an attempt is about to claim Open on a Client that Close has closed
C3_Witness ==
    /\ clients[0].atomicFlag = closedFlag
    /\ \E a \in DOMAIN attempts : attempts[a].pc = "claim"

\* C4: with concurrent Close() calls the connection's Close is invoked
\* exactly once, by the one caller that wins the open-to-closed
\* compare-and-swap; the other calls release nothing.
C4_CloseReleasesOnce ==
    /\ \A cn \in DOMAIN conns : conns[cn].closes <= 1
    /\ Cardinality({k \in DOMAIN closers : closers[k].won}) <= 1
    /\ \A k \in DOMAIN closers :
          (closers[k].pc = "done" /\ ~closers[k].won) => closers[k].released = NoConn
    /\ (\A k \in DOMAIN closers : closers[k].pc = "done")
          => Cardinality({cn \in DOMAIN conns : conns[cn].closes = 1}) = 1

\* every Close() call has returned: one released the connection, the others did nothing
C4_Witness ==
    /\ \A k \in DOMAIN closers : closers[k].pc = "done"
    /\ \E k \in DOMAIN closers : closers[k].won /\ conns[closers[k].released].closes = 1
    /\ \E k \in DOMAIN closers : ~closers[k].won

\* C5: once the Client is closed, a dial through the wrapper of its installed
\* connection does not call the underlying dialer.
C5_ClosedFailsFast ==
    (lastDial.called /\ lastDial.flag = closedFlag) => ~lastDial.underlying

\* C6: when the winning attempt was redirected through the tunnel, the
\* connection installed on the Client is the tunnel-hop connection.
C6_TunnelConnInstalled ==
    \A a \in DOMAIN attempts :
        (/\ pcMain = "ret_ok" /\ cVar = a
         /\ attempts[a].tconn # NoConn
         /\ \A k \in DOMAIN closers : closers[k].pc = "idle")
            => clients[0].conn = attempts[a].tconn

\* C7: if connectWithAuth returned an error, the Client is unset and holds no
\* connection, now and later.
C7_NoInstallAfterFailure ==
    pcMain = "ret_err"
        => clients[0].atomicFlag = unsetFlag /\ clients[0].conn = NoConn

\* C8: connectWithAuth always returns.
C8_EstablishReturns == <>Returned

\* every credential has been enumerated or failed to resolve, and every
\* spawned attempt has failed, before the deadline
AllFailed ==
    /\ ~dialDone
    /\ pcMain \in {"select", "cred_err"}
    /\ \A a \in DOMAIN attempts : attempts[a].err # "none"

FailedErrs ==
    { AttemptErr(a, attempts[a].err) : a \in DOMAIN attempts }
        \cup { CredErr(i, "resolve") : i \in { j \in 1..Len(creds) : ~Resolves(creds[j]) } }

Causes(e) == { e.causes[i] : i \in DOMAIN e.causes }

\* C9: if every enumerated attempt fails before the deadline, connectWithAuth
\* returns an error whose aggregate holds the error of every failed attempt
\* and of every credential that failed to resolve.
C9_AggregateOnTotalFailure ==
    AllFailed ~> (pcMain = "ret_err" /\ FailedErrs \subseteq Causes(retErr))

\* C10: a credential whose TLSConfig() or SSHConfig() fails spawns no
\* attempt, its error is collected and the loop goes on to the next credential.
C10_ResolveErrorContinues ==
    \A i \in 1..MaxCreds :
        (pcMain = "cred_err" /\ credIdx = i)
            ~> (/\ credIdx > i
                /\ \E n \in DOMAIN errs : errs[n] = CredErr(i, "resolve")
                /\ \A a \in DOMAIN attempts : attempts[a].cred # i)

\* C11: when connectWithAuth returns an error, the aggregate holds the error
\* of every attempt that reached its error report before the deadline fired.
C11_NoEarlyErrorDropped ==
    pcMain = "ret_err"
        => \A a \in DOMAIN attempts :
              (attempts[a].err # "none" /\ (attempts[a].pc = "done" \/ attempts[a].early))
                  => AttemptErr(a, attempts[a].err) \in Causes(retErr)

(* ------------- connectWithAuth called on a closed Client -------------- *)
\* The Client after New succeeded and Close() completed: the flag is closed
\* and line 348 has cleared conn. connectWithAuth (unexported, lines 90-196)
\* is then invoked again on this Client; it assigns tlsConfig and sshConfig
\* itself before it reads them.
ClosedClient == [NewClient EXCEPT !.atomicFlag = closedFlag]

InitClosed ==
    /\ cfgDialer \in BOOLEAN
    /\ creds \in { cs \in CredLists : TotalAttempts(cs, cfgDialer) <= MaxAttempts }
    /\ clients = [i \in {0} |-> ClosedClient]
    /\ cVar = 0
    /\ pcMain = "resolve"
    /\ credIdx = 1
    /\ addrIdx = 1
    /\ errs = <<>>
    /\ retErr = NoErr
    /\ attempts = <<>>
    /\ conns = <<>>
    /\ dialDone = FALSE
    /\ chanClosed = FALSE
    /\ wins = {}
    /\ panicked = FALSE
    /\ closers = [k \in 1..NumClosers |->
                     [pc |-> "done", won |-> k = 1, released |-> NoConn, ret |-> "nil"]]
    /\ lastDial = [called |-> FALSE, flag |-> unsetFlag, underlying |-> FALSE]
    /\ ctxDone = FALSE
    /\ NoProfiles
    /\ NoUpsert
    /\ NoClock
    /\ addrs = [n \in 1..NumAddrs |-> Addr(n)]

\* every copy *c carries the closed flag, so grpcDialer refuses each dial
\* (line 264-266) and no attempt gets past getClientConn
NextClosed ==
    \/ ResolveFail
    \/ SpawnCredsDialer
    \/ SpawnConfigDialer
    \/ BeginAddrs
    \/ SpawnDirect
    \/ SpawnTunnel
    \/ DeadlineFire
    \/ Timeout
    \/ \E a \in DOMAIN attempts : RecvErr(a)
    \/ \E a \in DOMAIN attempts : Dial(a)

SpecClosed == InitClosed /\ [][NextClosed]_vars

C13_TunnelDialsAdvertised ==
    \A a \in DOMAIN attempts :
        attempts[a].pc = "tping"
            => /\ conns[attempts[a].tconn].addr = attempts[a].tunnelAddr
               /\ conns[attempts[a].tconn].addr # attempts[a].addr
               /\ conns[attempts[a].tconn].addr # FixedTunnelAddr

\* C14: an attempt whose health-check response advertises no tunnel address,
\* or whose Client copy has no SSH config, goes from the health check to
\* the claim without a second dial, and what it installs when it wins is
\* the connection it dialed, its dialer and the service built on that
\* connection.
C14_NoRedirectKeepsOriginal ==
    [][\A a \in DOMAIN attempts :
          /\ (/\ attempts[a].pc = "ping"
              /\ attempts'[a].pc \notin {"ping", "send_err"}
              /\ (attempts'[a].tunnelAddr = EmptyAddr \/ clients[a].sshConfig = NoConfig))
                 => attempts'[a].pc = "claim" /\ conns' = conns
          /\ (/\ attempts[a].pc = "install" /\ attempts'[a].pc = "send_client"
              /\ attempts[a].tconn = NoConn)
                 => /\ <<a, 2>> \notin DOMAIN conns
                    /\ clients'[attempts[a].tgt].conn = <<a, 1>>
                    /\ clients'[attempts[a].tgt].grpc = <<a, 1>>
                    /\ clients'[attempts[a].tgt].dialer = attempts[a].dialer]_vars

\* an attempt without SSH config was advertised a tunnel address and has
\* installed its connection
C14_Witness ==
    \E a \in DOMAIN attempts :
        /\ attempts[a].pc = "send_client"
        /\ attempts[a].tunnelAddr = AdvertisedAddr
        /\ clients[a].sshConfig = NoConfig
        /\ clients[attempts[a].tgt].conn = <<a, 1>>

\* C15: an attempt whose tunnel dial or second health check failed reports
\* the error, never claims Open and its first connection is installed nowhere.
C15_RedirectFailureNoFallback ==
    \A a \in DOMAIN attempts :
        attempts[a].err \in {"tunnel_dial", "tunnel_ping"}
            => /\ attempts[a].pc \in {"send_err", "done"}
               /\ a \notin wins
               /\ \A i \in DOMAIN clients :
                     clients[i].conn # <<a, 1>> /\ clients[i].grpc # <<a, 1>>

\* a redirected attempt failed its tunnel dial and its error was collected
C15_Witness ==
    \E a \in DOMAIN attempts :
        /\ attempts[a].err \in {"tunnel_dial", "tunnel_ping"}
        /\ attempts[a].pc = "done"
        /\ attempts[a].conn = <<a, 1>>

\* C16: a failed attempt never ends the race: connectWithAuth returns an
\* error only once dialContext has expired, and when the coordinator
\* receives a winner it returns nil, whatever errors it has collected.
C16_FailuresDoNotAbort ==
    /\ pcMain = "ret_err" => dialDone
    /\ pcMain = "ret_ok" => retErr = NoErr /\ cVar \in wins

\* success before the deadline after another attempt's error was collected
C16_Witness == pcMain = "ret_ok" /\ Len(errs) >= 1 /\ ~dialDone

\* C17: a Close() call that does not win the open-to-closed claim returns
\* nil and releases nothing; only the winning call can return an error.
C17_OnlyWinnerReturnsError ==
    \A k \in DOMAIN closers :
        /\ (closers[k].pc = "done" /\ ~closers[k].won)
              => closers[k].ret = "nil" /\ closers[k].released = NoConn
        /\ closers[k].ret = "err" => closers[k].won

\* the winner returned the release error and another call returned nil
C17_Witness ==
    \E k, j \in DOMAIN closers :
        /\ closers[k].pc = "done" /\ closers[k].won /\ closers[k].ret = "err"
        /\ closers[j].pc = "done" /\ ~closers[j].won /\ closers[j].ret = "nil"

AllClosed == \A k \in DOMAIN closers : closers[k].pc = "done"

\* C18 as stated: concurrent Close() calls all return the same result.
C18_SameResult ==
    (pcMain = "ret_ok" /\ AllClosed)
        => \A k, j \in DOMAIN closers : closers[k].ret = closers[j].ret

\* C18 amended: the call that wins the claim returns the result of
\* releasing the connection, every other call returns nil; they all return
\* nil when the release succeeds.
C18_WinnerResultLosersNil ==
    (pcMain = "ret_ok" /\ AllClosed)
        => \A k \in DOMAIN closers :
              closers[k].ret = IF closers[k].won
                                  THEN conns[closers[k].released].closeErr
                                  ELSE "nil"

\* every call has returned and the release failed
C18_Witness ==
    /\ pcMain = "ret_ok" /\ AllClosed
    /\ \E k \in DOMAIN closers : closers[k].won /\ closers[k].ret = "err"
    /\ \E k \in DOMAIN closers : ~closers[k].won

\* C19: after a successful connectWithAuth, Config() of the Client New
\* returns is the TLS config of the credential the winning attempt used.
C19_ConfigOfWinner ==
    pcMain = "ret_ok" => Config(clients[0]) = attempts[cVar].cred

(* ------------------- cancellation of the caller's ctx ------------------ *)
\* line 77/90: the ctx of New is the caller's; it can be cancelled at any
\* moment while connectWithAuth runs. connectWithAuth passes it to the
\* attempts (lines 156-176); dialContext is derived from
\* context.Background() (line 93).
CancelCtx ==
    /\ ~ctxDone /\ ~Returned
    /\ ctxDone' = TRUE
    /\ UNCHANGED <<creds, cfgDialer, clients, cVar, pcMain, credIdx, addrIdx, errs,
                   retErr, attempts, conns, dialDone, chanClosed, wins, panicked,
                   closers, lastDial, addrs, outside>>

NextCancel ==
    \/ CancelCtx
    \/ ResolveFail
    \/ SpawnCredsDialer
    \/ SpawnConfigDialer
    \/ BeginAddrs
    \/ SpawnDirect
    \/ SpawnTunnel
    \/ DeadlineFire
    \/ Timeout
    \/ \E a \in DOMAIN attempts : RecvClient(a)
    \/ \E a \in DOMAIN attempts : RecvErr(a)
    \/ \E a \in DOMAIN attempts : Dial(a)
    \/ \E a \in DOMAIN attempts : Ping(a)
    \/ \E a \in DOMAIN attempts : TunnelDial(a)
    \/ \E a \in DOMAIN attempts : TunnelPing(a)
    \/ \E a \in DOMAIN attempts : Claim(a)
    \/ \E a \in DOMAIN attempts : Install(a)
    \/ \E a \in DOMAIN attempts : SendOnClosed(a)
    \/ \E a \in DOMAIN attempts : CloseChan(a)

SpecCancel == Init /\ [][NextCancel]_vars

\* a step of the coordinator that returns from connectWithAuth
CoordinatorReturns == Coordinator /\ pcMain' \in {"ret_ok", "ret_err"}

\* C20: once the caller's ctx is cancelled while the coordinator waits in
\* its select, the coordinator can return, also while dialContext has not
\* expired.
C20_CancelStopsWaiting ==
    (ctxDone /\ pcMain = "select" /\ ~dialDone /\ ~panicked)
        => ENABLED CoordinatorReturns

(* ----------------------- termination of the attempts ------------------ *)
\* the dial and the health checks of attempt a have returned; what is left
\* of syncConnect is its report (lines 102, 108, 119, 125) or lines 131-137
PastNetwork(a) ==
    /\ a \in DOMAIN attempts
    /\ attempts[a].pc \in {"send_err", "claim", "install", "send_client", "close_chan"}

\* C21: every attempt whose dial and health checks have returned eventually
\* terminates, also when connectWithAuth has returned before it reports.
C21_AttemptsTerminate ==
    \A a \in 1..MaxAttempts :
        PastNetwork(a) ~> (a \in DOMAIN attempts /\ attempts[a].pc = "done")

(* ------------------------- the credentials loop ----------------------- *)
\* lines 166-178 with an empty Config.Addrs: neither loop has an iteration
NoAddrs ==
    /\ Running /\ pcMain = "resolve"
    /\ Resolves(creds[credIdx]) /\ ~creds[credIdx].dialer /\ ~cfgDialer
    /\ addrs = <<>>
    /\ clients' = [clients EXCEPT ![cVar] = WithConfigs(@, creds[credIdx], credIdx)]
    /\ NextCred
    /\ UNCHANGED attempts
    /\ MainUnchanged

\* The loop of lines 140-179 on its own, over every credentials list and
\* address lists of 0..MaxEnumAddrs addresses. The attempts it spawns write
\* only atomicFlag, dialer, conn and grpc of the Client (lines 131-134),
\* which the loop does not read; they are left at their first step here.
InitEnum ==
    /\ cfgDialer \in BOOLEAN
    /\ creds \in CredLists
    /\ addrs \in { [n \in 1..m |-> Addr(n)] : m \in 0..MaxEnumAddrs }
    /\ clients = [i \in {0} |-> NewClient]
    /\ cVar = 0
    /\ pcMain = "resolve"
    /\ credIdx = 1
    /\ addrIdx = 1
    /\ errs = <<>>
    /\ retErr = NoErr
    /\ attempts = <<>>
    /\ conns = <<>>
    /\ dialDone = FALSE
    /\ chanClosed = FALSE
    /\ wins = {}
    /\ panicked = FALSE
    /\ closers = [k \in 1..NumClosers |->
                     [pc |-> "idle", won |-> FALSE, released |-> NoConn, ret |-> "none"]]
    /\ lastDial = [called |-> FALSE, flag |-> unsetFlag, underlying |-> FALSE]
    /\ ctxDone = FALSE
    /\ NoProfiles
    /\ NoUpsert
    /\ NoClock

NextEnum ==
    \/ ResolveFail
    \/ SpawnCredsDialer
    \/ SpawnConfigDialer
    \/ BeginAddrs
    \/ NoAddrs
    \/ SpawnDirect
    \/ SpawnTunnel

SpecEnum == InitEnum /\ [][NextEnum]_vars

\* the attempts spawned for credential i
AttemptsFor(i) == { a \in DOMAIN attempts : attempts[a].cred = i }

\* credential i resolved and its loop iteration is over
Enumerated(i) == credIdx > i /\ Resolves(creds[i])

\* C22: a resolved credential with its own dialer gets exactly one attempt,
\* with that dialer against constants.APIDomain; otherwise, when the Config
\* has a dialer, exactly one attempt with the configured dialer against
\* constants.APIDomain; in both cases no attempt per address.
C22_OneAttemptPerCustomDialer ==
    \A i \in DOMAIN creds :
        (Enumerated(i) /\ (creds[i].dialer \/ cfgDialer))
            => \E a \in DOMAIN attempts :
                  /\ AttemptsFor(i) = {a}
                  /\ attempts[a].addr = APIDomain
                  /\ attempts[a].dialer = IF creds[i].dialer THEN "creds" ELSE "config"

\* a credential with its own dialer was enumerated under a configured dialer
C22_Witness ==
    /\ cfgDialer /\ Len(addrs) >= 2
    /\ \E i \in DOMAIN creds : Enumerated(i) /\ creds[i].dialer

\* C23: a resolved credential with no own dialer, under a Config without
\* dialer and with M addresses, gets exactly one direct attempt per address
\* and, if and only if it carries an SSH config, exactly one tunnel attempt
\* per address: M attempts without SSH config, 2M with it.
C23_PerAddressAttempts ==
    \A i \in DOMAIN creds :
        (Enumerated(i) /\ ~creds[i].dialer /\ ~cfgDialer)
            => LET D == { a \in AttemptsFor(i) : attempts[a].dialer = "direct" }
                   T == { a \in AttemptsFor(i) : attempts[a].dialer = "tunnel" }
               IN  /\ AttemptsFor(i) = D \cup T
                   /\ Cardinality(D) = Len(addrs)
                   /\ \A n \in DOMAIN addrs : \E a \in D : attempts[a].addr = addrs[n]
                   /\ IF creds[i].ssh = "cfg"
                         THEN /\ Cardinality(T) = Len(addrs)
                              /\ \A n \in DOMAIN addrs :
                                    \E a \in T : attempts[a].addr = addrs[n]
                         ELSE T = {}

\* 2M attempts for a credential with an SSH config and M >= 2 addresses
C23_Witness ==
    /\ ~cfgDialer /\ Len(addrs) >= 2
    /\ \E i \in DOMAIN creds :
          /\ Enumerated(i) /\ ~creds[i].dialer /\ creds[i].ssh = "cfg"
          /\ Cardinality(AttemptsFor(i)) = 2 * Len(addrs)

\* C24 as stated: an error returned after at least one attempt error was
\* collected holds the timeout error and every collected error.
C24_TimeoutErrorAdded ==
    (pcMain = "ret_err" /\ errs # <<>>)
        => /\ retErr.deadline
           /\ \A n \in DOMAIN errs : errs[n] \in Causes(retErr)

\* C24 amended: the error returned on the deadline is non-nil and holds every
\* collected error; it is the timeout error exactly when no error was
\* collected.
C24_TimeoutErrorOnlyWhenNoneCollected ==
    pcMain = "ret_err"
        => /\ ~retErr.isNil
           /\ \A n \in DOMAIN errs : errs[n] \in Causes(retErr)
           /\ retErr.deadline <=> (errs = <<>>)

\* returned on the deadline with a collected error and without the timeout error
C24_Witness == pcMain = "ret_err" /\ dialDone /\ errs # <<>> /\ ~retErr.deadline

(* ------------------------------ profiles ------------------------------ *)
\* the directory of t.TempDir() and a directory that does not exist
GoodDir == "dir"
BadDir == "/bad/directory/"

\* Profile values, after the one of TestProfileBasics: two proxies sharing
\* the host "proxy", a second host, two users, two clusters
Profiles ==
    [WebProxyAddr : {<<"proxy", 3088>>, <<"proxy", 3080>>, <<"other", 3088>>},
     Username : {"testuser", "alice"},
     SiteName : {"example.com", "other.com"},
     Dir : {GoodDir}]

\* p.Name(): the host component of the proxy address
Name(p) == p.WebProxyAddr[1]

\* profile.GetCurrentProfileName(dir)
GetCurrentProfileName == IF current = NoName THEN NotFound ELSE <<current>>

\* profile.FromDir(dir, name): the current profile for an empty name
FromDir(name) ==
    LET n == IF name = NoName THEN current ELSE name IN
    IF n = NoName THEN NotFound ELSE files[n]

\* the directory after p.SaveToDir(dir, makeCurrent)
SavedCurrentNever(p, makeCurrent) == current

SavedCurrent(p, makeCurrent) == IF makeCurrent THEN Name(p) ELSE current

\* p.SaveToDir(dir, makeCurrent): writes <dir>/<name>.yaml, fails when dir
\* does not exist
SaveToDir(p, dir, makeCurrent) ==
    /\ lastSave' = <<[p |-> p, makeCurrent |-> makeCurrent, err |-> dir = BadDir,
                     before |-> files[Name(p)], currentBefore |-> current]>>
    /\ IF dir = BadDir
         THEN UNCHANGED <<files, current>>
         ELSE /\ files' = [files EXCEPT ![Name(p)] = <<p>>]
              /\ current' = SavedCurrent(p, makeCurrent)

clientVars ==
    <<creds, cfgDialer, clients, cVar, pcMain, credIdx, addrIdx, errs, retErr,
      attempts, conns, dialDone, chanClosed, wins, panicked, closers, lastDial,
      ctxDone, addrs>>

Save ==
    /\ \E p \in Profiles, dir \in {GoodDir, BadDir}, makeCurrent \in BOOLEAN :
          SaveToDir(p, dir, makeCurrent)
    /\ UNCHANGED <<clientVars, now, dialTimeout, upsertRun>>

\* no client is being built while the profile directory is exercised
InitProfile ==
    /\ NoProfiles
    /\ NoUpsert
    /\ NoClock
    /\ cfgDialer = FALSE
    /\ creds = <<>>
    /\ addrs = <<>>
    /\ clients = [i \in {0} |-> NewClient]
    /\ cVar = 0
    /\ pcMain = "none"
    /\ credIdx = 1
    /\ addrIdx = 1
    /\ errs = <<>>
    /\ retErr = NoErr
    /\ attempts = <<>>
    /\ conns = <<>>
    /\ dialDone = FALSE
    /\ chanClosed = FALSE
    /\ wins = {}
    /\ panicked = FALSE
    /\ closers = <<>>
    /\ lastDial = [called |-> FALSE, flag |-> unsetFlag, underlying |-> FALSE]
    /\ ctxDone = FALSE

NextProfile == Save

SpecProfile == InitProfile /\ [][NextProfile]_vars

\* the last SaveToDir succeeded and made its profile current
SavedAsCurrent == lastSave # NoSave /\ ~lastSave[1].err /\ lastSave[1].makeCurrent

C26_FailedAttemptReleases ==
    \A a \in DOMAIN attempts :
        (attempts[a].pc = "done" /\ attempts[a].err \in {"ping", "tunnel_dial", "tunnel_ping"})
            => \A cn \in OpenConns : conns[cn].owner # a

\* attempt a is at the claim of line 131 or past it
AtOrPastClaim(a) ==
    \/ attempts[a].pc \in {"claim", "install", "send_client", "close_chan"}
    \/ attempts[a].pc = "done" /\ attempts[a].err = "none"

\* C27: an attempt reaches c.setOpen() only with a successful dial and a
\* successful health check on it and, when the first response redirected
\* it, with a successful second dial and a successful second health check.
C27_ClaimAfterHealthCheck ==
    \A a \in DOMAIN attempts :
        (AtOrPastClaim(a) \/ a \in wins)
            => /\ attempts[a].err = "none"
               /\ attempts[a].conn \in DOMAIN conns
               /\ IF attempts[a].redirected
                     THEN /\ attempts[a].tconn \in DOMAIN conns
                          /\ attempts[a].service = attempts[a].tconn
                     ELSE /\ attempts[a].tconn = NoConn
                          /\ attempts[a].service = attempts[a].conn

\* a redirected attempt won the claim
C27_Witness == \E a \in wins : attempts[a].redirected

\* every spawned attempt has failed and its error has been collected
AllReported ==
    /\ attempts # <<>>
    /\ \A a \in DOMAIN attempts : attempts[a].pc = "done" /\ attempts[a].err # "none"

\* C28: once every enumerated attempt has reported its failure, the
\* coordinator can return the aggregated error, also while dialContext has
\* not expired.
C28_ReturnsWhenAllFailed ==
    (pcMain = "select" /\ AllReported /\ ~dialDone /\ ~panicked)
        => ENABLED CoordinatorReturns

(* --------------------------- the dial deadline ------------------------ *)
\* one second passes
Tick ==
    /\ Running /\ ~Returned
    /\ now < MaxTime
    /\ now' = now + 1
    /\ UNCHANGED <<clientVars, files, current, lastSave, dialTimeout, upsertRun>>

\* the timer of dialContext fires once its duration has passed
TimerFire ==
    /\ now >= DialDeadline(dialTimeout)
    /\ DeadlineFire

\* New (lines 77-88) with a Config whose DialTimeout is 0..MaxDialTimeout
InitTimed ==
    /\ now = 0
    /\ dialTimeout \in { CheckAndSetDefaults(t) : t \in 0..MaxDialTimeout }
    /\ NoProfiles
    /\ NoUpsert
    /\ cfgDialer \in BOOLEAN
    /\ creds \in { cs \in CredLists : TotalAttempts(cs, cfgDialer) <= MaxAttempts }
    /\ addrs = [n \in 1..NumAddrs |-> Addr(n)]
    /\ clients = [i \in {0} |-> NewClient]
    /\ cVar = 0
    /\ pcMain = "resolve"
    /\ credIdx = 1
    /\ addrIdx = 1
    /\ errs = <<>>
    /\ retErr = NoErr
    /\ attempts = <<>>
    /\ conns = <<>>
    /\ dialDone = FALSE
    /\ chanClosed = FALSE
    /\ wins = {}
    /\ panicked = FALSE
    /\ closers = [k \in 1..NumClosers |->
                     [pc |-> "idle", won |-> FALSE, released |-> NoConn, ret |-> "none"]]
    /\ lastDial = [called |-> FALSE, flag |-> unsetFlag, underlying |-> FALSE]
    /\ ctxDone = FALSE

NextTimed ==
    \/ Tick
    \/ TimerFire
    \/ ResolveFail
    \/ SpawnCredsDialer
    \/ SpawnConfigDialer
    \/ BeginAddrs
    \/ SpawnDirect
    \/ SpawnTunnel
    \/ Timeout
    \/ \E a \in DOMAIN attempts : RecvClient(a)
    \/ \E a \in DOMAIN attempts : RecvErr(a)
    \/ \E a \in DOMAIN attempts : Dial(a)
    \/ \E a \in DOMAIN attempts : Ping(a)
    \/ \E a \in DOMAIN attempts : TunnelDial(a)
    \/ \E a \in DOMAIN attempts : TunnelPing(a)
    \/ \E a \in DOMAIN attempts : Claim(a)
    \/ \E a \in DOMAIN attempts : Install(a)
    \/ \E a \in DOMAIN attempts : SendOnClosed(a)
    \/ \E a \in DOMAIN attempts : CloseChan(a)

SpecTimed == InitTimed /\ [][NextTimed]_vars

\* C29: connectWithAuth gives up only once the configured DialTimeout has
\* passed, so an attempt that succeeds before it still wins.
C29_DeadlineFromConfig ==
    (dialDone \/ pcMain = "ret_err") => now >= dialTimeout

(* ----------------------- Close before the connect --------------------- *)
\* Close() called inside the package on the Client of line 82, before
\* connectWithAuth has started on it
CloseUnopened(k) ==
    /\ Running /\ pcMain = "resolve" /\ credIdx = 1
    /\ CloseCall(k)

InitUnopened == Init /\ Len(creds) = 1

NextUnopened ==
    \/ \E k \in DOMAIN closers : CloseUnopened(k)
    \/ Next

SpecUnopened == InitUnopened /\ [][NextUnopened]_vars

\* C30: a Close() call that finds the Client not open (unset or closed)
\* returns at once as a loser and changes neither a field of any Client nor
\* a connection; a Client found unset stays unset.
C30_CloseNotOpenChangesNothing ==
    [][\A k \in DOMAIN closers :
          (/\ closers[k].pc = "idle" /\ closers'[k].pc # "idle"
           /\ clients[0].atomicFlag # openFlag)
              => /\ closers'[k].pc = "done" /\ ~closers'[k].won
                 /\ closers'[k].released = NoConn
                 /\ clients' = clients
                 /\ conns' = conns]_vars

\* a Close() found the Client unset, and an attempt claimed Open afterwards
C30_Witness ==
    /\ \E k \in DOMAIN closers : closers[k].pc = "done"
    /\ \A k \in DOMAIN closers : ~closers[k].won
    /\ clients[0].atomicFlag = openFlag
    /\ wins # {}

\* C31: at the step in which connectWithAuth returns nil, the Client of New
\* is open and its conn, dialer and grpc have been installed.
C31_InstalledBeforeSuccess ==
    [][(pcMain # "ret_ok" /\ pcMain' = "ret_ok")
          => /\ clients'[0].atomicFlag = openFlag
             /\ clients'[0].conn \in DOMAIN conns
             /\ clients'[0].grpc \in DOMAIN conns
             /\ clients'[0].dialer # NoDialer]_vars

\* connectWithAuth has returned nil and Close has not been called
C31_Witness ==
    /\ pcMain = "ret_ok"
    /\ \A k \in DOMAIN closers : closers[k].pc = "idle"
    /\ clients[0].conn \in DOMAIN conns

\* C32 as stated: whenever the lifecycle flag of the Client is open, its
\* conn is set.
C32_OpenHasConn ==
    clients[0].atomicFlag = openFlag => clients[0].conn \in DOMAIN conns

\* C32 amended: once connectWithAuth has returned nil, an open Client has
\* its conn set, and a Close() that wins the claim finds a connection to
\* release, also while late attempts are still claiming and installing.
C32_OpenAfterReturnHasConn ==
    /\ (pcMain = "ret_ok" /\ clients[0].atomicFlag = openFlag)
          => clients[0].conn \in DOMAIN conns
    /\ \A k \in DOMAIN closers :
          closers[k].pc = "release" => clients[0].conn \in DOMAIN conns

\* a Close() has won the claim while a late attempt is installing
C32_Witness ==
    /\ \E k \in DOMAIN closers : closers[k].pc = "release"
    /\ \E a \in DOMAIN attempts : attempts[a].pc = "install"

\* C33: after a successful connectWithAuth, the grpc service client of the
\* Client is the one built on the connection held in its conn, also when
\* the winner was redirected through the tunnel.
C33_ServiceOnInstalledConn ==
    (pcMain = "ret_ok" /\ \A k \in DOMAIN closers : closers[k].pc = "idle")
        => clients[0].grpc = clients[0].conn

\* C34: no attempt is at its send on clientChan or at close(clientChan)
\* once clientChan has been closed, and no goroutine has panicked.
C34_NoSendOrCloseAfterClose ==
    /\ \A a \in DOMAIN attempts :
          attempts[a].pc \in {"send_client", "close_chan"} => ~chanClosed
    /\ ~panicked

\* C37: every connection an attempt dials carries the TLS config of the
\* credential the attempt was spawned for, an attempt is redirected only
\* when that credential has an SSH config, and its tunnel dialer is built
\* from that SSH config, whatever the loop has since written to the Client.
C37_AttemptUsesOwnConfigs ==
    /\ \A cn \in DOMAIN conns :
          LET a == conns[cn].owner IN
          /\ conns[cn].tls = attempts[a].cred
          /\ cn = attempts[a].tconn => conns[cn].ssh = attempts[a].cred
    /\ \A a \in DOMAIN attempts :
          attempts[a].redirected => creds[attempts[a].cred].ssh = "cfg"

\* an attempt dialed after the loop had put a later credential's TLS config
\* on the Client
C37_Witness ==
    \E cn \in DOMAIN conns :
        /\ Config(clients[0]) # NoConfig
        /\ conns[cn].tls # Config(clients[0])

(* ------------------------ RoleReconciler.Upsert ----------------------- *)
\* obj is the *unstructured.Unstructured that Reconcile passes (line 69) or
\* another kclient.Object; role is the role of that name in Teleport:
\* absent, created by the operator, or created by someone else
\* the types of the status conditions that Upsert sets
ConditionTypes == {"structure", "ownership", "reconciliation"}

\* obj also carries the status conditions that an earlier reconciliation left
UpsertInputs ==
    [obj : {"unstructured", "other"}, role : {"absent", "kubernetes", "foreign"},
     conditions : [ConditionTypes -> {"none", "true", "false"}]]

\* meta.SetStatusCondition with the condition that the error gives
SetStatusCondition(conditions, type, err) ==
    [conditions EXCEPT ![type] = IF err = "nil" THEN "true" ELSE "false"]

UpsertUnchanged == UNCHANGED <<clientVars, files, current, lastSave, now, dialTimeout>>

\* one more entry in the record of what this call has done
Logged(step, err) == Append(upsertRun.log, [step |-> step, err |-> err])

\* the first error is returned alone, the error of the status update dropped
AggregateFirstOnly(e1, e2) == e1

\* trace.NewAggregate(trace.Wrap(e1), trace.Wrap(e2)): nil when both are nil
AggregateOf(e1, e2) == IF e1 = "nil" /\ e2 = "nil" THEN "nil" ELSE "err"

\* lines 100-103: u, ok := obj.(*unstructured.Unstructured)
UpsertAssert ==
    /\ upsertRun.pc = "assert"
    /\ upsertRun' =
          IF upsertRun.obj = "unstructured"
          THEN [upsertRun EXCEPT !.pc = "convert", !.log = Logged("assert", "nil")]
          ELSE [upsertRun EXCEPT !.pc = "done", !.ret = "err", !.log = Logged("assert", "err")]
    /\ UpsertUnchanged

\* lines 107-121: FromUnstructuredWithValidation, the structure condition
UpsertConvert ==
    /\ upsertRun.pc = "convert"
    /\ \E e \in {"nil", "err"} :
          upsertRun' = [upsertRun EXCEPT
              !.err = e,
              !.log = Logged("convert", e) \o <<[step |-> "condition", err |-> e]>>,
              !.conditions = SetStatusCondition(@, "structure", e),
              !.pc = IF e = "nil" THEN "client" ELSE "status"]
    /\ UpsertUnchanged

\* lines 124-131: r.TeleportClientAccessor(ctx)
UpsertGetClient ==
    /\ upsertRun.pc = "client"
    /\ \E e \in {"nil", "err"} :
          upsertRun' = [upsertRun EXCEPT
              !.err = e,
              !.log = Logged("client", e),
              !.pc = IF e = "nil" THEN "get" ELSE "status"]
    /\ UpsertUnchanged

\* lines 133-139: GetRole; a NotFound error is not a failure
UpsertGetRole ==
    /\ upsertRun.pc = "get"
    /\ \E e \in {IF upsertRun.role = "absent" THEN "notfound" ELSE "nil", "err"} :
          upsertRun' = [upsertRun EXCEPT
              !.err = IF e = "err" THEN "err" ELSE "nil",
              !.log = Logged("get", e),
              !.pc = IF e = "err" THEN "status" ELSE "own"]
    /\ UpsertUnchanged

\* the error of checkOwnership is not tested
UpsertCheckOwnershipIgnored ==
    /\ upsertRun.pc = "own"
    /\ \E e \in {"nil", "err"} :
          upsertRun' = [upsertRun EXCEPT
              !.err = e,
              !.log = Logged("own", e) \o <<[step |-> "condition", err |-> e]>>,
              !.conditions = SetStatusCondition(@, "ownership", e),
              !.pc = "write"]
    /\ UpsertUnchanged

\* lines 142-149: checkOwnership(existingResource), the ownership condition
UpsertCheckOwnership ==
    /\ upsertRun.pc = "own"
    /\ \E e \in {"nil", "err"} :
          upsertRun' = [upsertRun EXCEPT
              !.err = e,
              !.log = Logged("own", e) \o <<[step |-> "condition", err |-> e]>>,
              !.conditions = SetStatusCondition(@, "ownership", e),
              !.pc = IF e = "nil" THEN "write" ELSE "status"]
    /\ UpsertUnchanged

\* lines 151-156: addTeleportResourceOrigin, teleportClient.UpsertRole and
\* the reconciliation condition
UpsertWrite ==
    /\ upsertRun.pc = "write"
    /\ \E e \in {"nil", "err"} :
          upsertRun' = [upsertRun EXCEPT
              !.err = e,
              !.role = IF e = "nil" THEN "kubernetes" ELSE @,
              !.log = Logged("write", e) \o <<[step |-> "condition", err |-> e]>>,
              !.conditions = SetStatusCondition(@, "reconciliation", e),
              !.pc = "status"]
    /\ UpsertUnchanged

\* the return statements of lines 115-120, 127-130, 135-138, 145-148 and
\* 157-160: r.Status().Update(ctx, k8sResource) and the aggregate
UpsertStatusUpdate ==
    /\ upsertRun.pc = "status"
    /\ \E e \in {"nil", "err"} :
          upsertRun' = [upsertRun EXCEPT
              !.log = Logged("status", e),
              !.stored = IF e = "nil" THEN upsertRun.conditions ELSE @,
              !.ret = AggregateOf(upsertRun.err, e),
              !.pc = "done"]
    /\ UpsertUnchanged

InitUpsert ==
    /\ \E in \in UpsertInputs :
          upsertRun = [pc |-> "assert", obj |-> in.obj, role |-> in.role, before |-> in.role,
                       err |-> "nil", log |-> <<>>, ret |-> "none",
                       conditions |-> in.conditions, stored |-> in.conditions]
    /\ NoProfiles
    /\ NoClock
    /\ cfgDialer = FALSE
    /\ creds = <<>>
    /\ addrs = <<>>
    /\ clients = [i \in {0} |-> NewClient]
    /\ cVar = 0
    /\ pcMain = "none"
    /\ credIdx = 1
    /\ addrIdx = 1
    /\ errs = <<>>
    /\ retErr = NoErr
    /\ attempts = <<>>
    /\ conns = <<>>
    /\ dialDone = FALSE
    /\ chanClosed = FALSE
    /\ wins = {}
    /\ panicked = FALSE
    /\ closers = <<>>
    /\ lastDial = [called |-> FALSE, flag |-> unsetFlag, underlying |-> FALSE]
    /\ ctxDone = FALSE

NextUpsert ==
    \/ UpsertAssert
    \/ UpsertConvert
    \/ UpsertGetClient
    \/ UpsertGetRole
    \/ UpsertCheckOwnership
    \/ UpsertWrite
    \/ UpsertStatusUpdate

SpecUpsert == InitUpsert /\ [][NextUpsert]_vars

\* the positions of the log at which `step` was performed
StepsOf(step) == { n \in DOMAIN upsertRun.log : upsertRun.log[n].step = step }

\* `step` was performed before position n and did not fail
PassedBefore(step, n) ==
    \E m \in StepsOf(step) : m < n /\ upsertRun.log[m].err \in {"nil", "notfound"}

\* one of the steps before UpsertRole failed
FailedBeforeWrite ==
    \E n \in DOMAIN upsertRun.log :
        /\ upsertRun.log[n].step \in {"assert", "convert", "client", "get", "own"}
        /\ upsertRun.log[n].err = "err"

\* C35: Upsert calls UpsertRole at most once, and only after the conversion,
\* the client accessor, GetRole (nil or NotFound) and the ownership test all
\* passed; when one of them fails Upsert returns an error and the role in
\* Teleport is as it was.
C35_UpsertRoleOnlyAfterChecks ==
    /\ Cardinality(StepsOf("write")) <= 1
    /\ \A n \in StepsOf("write") :
          /\ PassedBefore("assert", n) /\ PassedBefore("convert", n)
          /\ PassedBefore("client", n) /\ PassedBefore("get", n)
          /\ PassedBefore("own", n)
    /\ (upsertRun.pc = "done" /\ FailedBeforeWrite)
          => /\ upsertRun.ret = "err"
             /\ upsertRun.role = upsertRun.before
             /\ StepsOf("write") = {}

\* Upsert returned after the ownership test refused a role it does not own
C35_Witness ==
    /\ upsertRun.pc = "done" /\ upsertRun.before = "foreign"
    /\ \E n \in StepsOf("own") : upsertRun.log[n].err = "err"

\* C36: every return of Upsert after a successful type assertion has made
\* exactly one status update, after the last status condition was set, and
\* Upsert returns nil exactly when no step and not the status update failed.
C36_OneStatusUpdateOnEveryReturn ==
    (upsertRun.pc = "done" /\ upsertRun.obj = "unstructured")
        => /\ Cardinality(StepsOf("status")) = 1
           /\ \A n \in StepsOf("status"), c \in StepsOf("condition") : c < n
           /\ StepsOf("status") = {Len(upsertRun.log)}
           /\ upsertRun.ret = "nil"
                 <=> \A n \in DOMAIN upsertRun.log :
                        upsertRun.log[n].err \in {"nil", "notfound"}

\* UpsertRole succeeded and the status update failed: Upsert returned an error
C36_Witness ==
    /\ upsertRun.pc = "done" /\ upsertRun.ret = "err"
    /\ \E n \in StepsOf("write") : upsertRun.log[n].err = "nil"
    /\ \E n \in StepsOf("status") : upsertRun.log[n].err = "err"

=============================================================================
